---- MODULE Spec2Model ----
(***************************************************************************)
(* The SleepWise client: the API client (apiClient.post / apiClient.get),  *)
(* the Predict and DailyLog submit handlers with their zod schema, and the *)
(* API-backed Dashboard's fetchDashboardData.                              *)
(*                                                                         *)
(* One page is mounted at a time (page).  JavaScript runs each handler     *)
(* from one await to the next without interruption, so an action is one    *)
(* such run: the code from an event, or from the settling of an awaited    *)
(* promise, up to the next await.                                          *)
(***************************************************************************)
EXTENDS Integers, Sequences, FiniteSets, TLC

\* ------------------------------------------------------------------ bounds
\* Submit events per mounted form page.
MaxSubmits == 2
\* Events from outside the handlers, per run: an edit of the form, a change
\* of the session, a change of the dashboard window, a response that is not
\* a 2xx response with JSON.
MaxEvents == 1
\* The largest number of keys of a driver_counts mapping, and the largest
\* count, in the specification of the ranking.
MaxDrivers == 6
MaxCount == 3
\* The most rows one query of the Dashboard that reads the rows returns.
MaxRows == 2

\* ------------------------------------------------------- values and inputs
NoSession == "none"
\* access_token values the session provider hands out.
Tokens == {"jwt1", "jwt2"}

\* The text of an <Input> is a sequence of characters.
Digit == {"0", "1", "2", "3", "4", "5", "6", "7", "8", "9"}
DigitVal ==
  [c \in Digit |->
     CASE c = "0" -> 0 [] c = "1" -> 1 [] c = "2" -> 2 [] c = "3" -> 3
       [] c = "4" -> 4 [] c = "5" -> 5 [] c = "6" -> 6 [] c = "7" -> 7
       [] c = "8" -> 8 [] OTHER -> 9]

\* A JavaScript number: NaN, or a value.  sleep_duration counts tenths
\* (7.5 hours is 75), every other number counts units.
NaN == [nan |-> TRUE, v |-> 0]
Num(n) == [nan |-> FALSE, v |-> n]

\* The length of the longest prefix of s made of digits.
RECURSIVE DigitRun(_)
DigitRun(s) ==
  IF s = <<>> \/ Head(s) \notin Digit THEN 0 ELSE 1 + DigitRun(Tail(s))

\* The value of a sequence of digits read in base ten.
RECURSIVE DigitsValue(_)
DigitsValue(s) ==
  IF s = <<>> THEN 0
  ELSE 10 * DigitsValue(SubSeq(s, 1, Len(s) - 1)) + DigitVal[s[Len(s)]]

\* parseInt(text): an optional sign, then the leading digits; NaN when
\* there is none; whatever follows the digits is ignored.
ParseInt(s) ==
  LET neg  == s # <<>> /\ Head(s) = "-"
      body == IF s # <<>> /\ Head(s) \in {"-", "+"} THEN Tail(s) ELSE s
      n    == DigitRun(body)
      mag  == DigitsValue(SubSeq(body, 1, n))
  IN  IF n = 0 THEN NaN ELSE Num(IF neg THEN 0 - mag ELSE mag)

\* parseFloat(text), in tenths: an optional sign, digits, and an optional
\* "." with digits, of which the inputs here have at most one.
ParseFloat(s) ==
  LET neg  == s # <<>> /\ Head(s) = "-"
      body == IF s # <<>> /\ Head(s) \in {"-", "+"} THEN Tail(s) ELSE s
      n    == DigitRun(body)
      rest == SubSeq(body, n + 1, Len(body))
      frac == IF rest # <<>> /\ Head(rest) = "." THEN Tail(rest) ELSE <<>>
      m    == DigitRun(frac)
      mag  == 10 * DigitsValue(SubSeq(body, 1, n))
              + (IF m = 0 THEN 0 ELSE DigitVal[frac[1]])
  IN  IF n = 0 /\ m = 0 THEN NaN ELSE Num(IF neg THEN 0 - mag ELSE mag)

\* ------------------------------------------------------------ the schema
\* Inclusive bounds of the z.number() / z.string() checks.
AgeMin == 1
AgeMax == 120
SleepMin == 0
SleepMax == 24
StressMin == 1
StressMax == 10
StepsMin == 0
HeartMin == 30
HeartMax == 220
ActivityMin == 0
StrMin == 1

Min(n) == [kind |-> "min", value |-> n]
Max(n) == [kind |-> "max", value |-> n]
ZNumber(key, checks) == [key |-> key, type |-> "number", checks |-> checks]
ZString(key, checks) == [key |-> key, type |-> "string", checks |-> checks]

\* z.object({...}): the shape, key by key in declaration order.
predictionSchema ==
  << ZNumber("age", <<Min(AgeMin), Max(AgeMax)>>),
     ZString("gender", <<Min(StrMin)>>),
     ZNumber("sleep_duration", <<Min(SleepMin), Max(SleepMax)>>),
     ZNumber("stress_level", <<Min(StressMin), Max(StressMax)>>),
     ZNumber("daily_steps", <<Min(StepsMin)>>),
     ZString("bmi_category", <<Min(StrMin)>>),
     ZString("blood_pressure", <<Min(StrMin)>>),
     ZNumber("heart_rate", <<Min(HeartMin), Max(HeartMax)>>),
     ZNumber("physical_activity", <<Min(ActivityMin)>>) >>

sleepLogSchema ==
  << ZNumber("age", <<Min(AgeMin), Max(AgeMax)>>),
     ZString("gender", <<Min(StrMin)>>),
     ZNumber("sleep_duration", <<Min(SleepMin), Max(SleepMax)>>),
     ZNumber("stress_level", <<Min(StressMin), Max(StressMax)>>),
     ZNumber("daily_steps", <<Min(StepsMin)>>),
     ZString("bmi_category", <<Min(StrMin)>>),
     ZString("blood_pressure", <<Min(StrMin)>>),
     ZNumber("heart_rate", <<Min(HeartMin), Max(HeartMax)>>),
     ZNumber("physical_activity", <<Min(ActivityMin)>>) >>

\* The nine field names, in the order of the shape.
Fields == [i \in 1..Len(predictionSchema) |-> predictionSchema[i].key]
FieldSet == {Fields[i] : i \in 1..Len(Fields)}

\* sleep_duration is held in tenths: a bound of b hours is 10 * b tenths.
Scale(key) == IF key = "sleep_duration" THEN 10 ELSE 1

\* One zod issue: the field it is about and the message shown for it.
Issue(key, text, n) == [path |-> key, message |-> [text |-> text, n |-> n]]

\* CheckOk with exclusive bounds.
CheckOkExclusive(entry, c, x) ==
  IF entry.type = "number"
    THEN IF c.kind = "min" THEN x.v > c.value * Scale(entry.key)
                           ELSE x.v < c.value * Scale(entry.key)
    ELSE IF c.kind = "min" THEN Len(x) > c.value ELSE Len(x) < c.value

\* Whether value x passes one check of a field.
CheckOk(entry, c, x) ==
  IF entry.type = "number"
    THEN IF c.kind = "min" THEN x.v >= c.value * Scale(entry.key)
                           ELSE x.v <= c.value * Scale(entry.key)
    ELSE IF c.kind = "min" THEN Len(x) >= c.value ELSE Len(x) <= c.value

CheckIssue(entry, c) ==
  IF entry.type = "number"
    THEN IF c.kind = "min"
           THEN Issue(entry.key, "Number must be greater than or equal to", c.value)
           ELSE Issue(entry.key, "Number must be less than or equal to", c.value)
    ELSE IF c.kind = "min"
           THEN Issue(entry.key, "String must contain at least N character(s)", c.value)
           ELSE Issue(entry.key, "String must contain at most N character(s)", c.value)

\* The issues of the checks i.. of a field: every failing check adds one
\* (zod does not stop at the first failing check).
RECURSIVE ChecksFrom(_, _, _)
ChecksFrom(entry, i, x) ==
  IF i > Len(entry.checks) THEN <<>>
  ELSE (IF CheckOk(entry, entry.checks[i], x) THEN <<>>
        ELSE <<CheckIssue(entry, entry.checks[i])>>)
       \o ChecksFrom(entry, i + 1, x)

\* FieldIssues without the rejection of NaN: the checks compare NaN's
\* stand-in value.
FieldIssuesAcceptNaN(entry, x) == ChecksFrom(entry, 1, x)

\* The issues of one field.  z.number() rejects NaN before any check runs.
FieldIssues(entry, x) ==
  IF entry.type = "number" /\ x.nan
    THEN <<Issue(entry.key, "Expected number, received nan", 0)>>
    ELSE ChecksFrom(entry, 1, x)

\* ZodError.errors of schema.parse(data): the fields' issues in shape order.
RECURSIVE IssuesFrom(_, _, _)
IssuesFrom(schema, i, data) ==
  IF i > Len(schema) THEN <<>>
  ELSE FieldIssues(schema[i], data[schema[i].key]) \o IssuesFrom(schema, i + 1, data)

SchemaIssues(schema, data) == IssuesFrom(schema, 1, data)

\* The value schema.parse(data) returns when there is no issue: the keys of
\* the shape with the values given (z.object strips any other key).
SchemaOutput(schema, data) ==
  [k \in {schema[i].key : i \in 1..Len(schema)} |-> data[k]]

\* The object literal handed to parse: the form's text after parseInt /
\* parseFloat, and the slider's first element.
Coerce(form) ==
  [age |-> ParseInt(form.age),
   gender |-> form.gender,
   sleep_duration |-> ParseFloat(form.sleep_duration),
   stress_level |-> Num(form.stress_level[1]),
   daily_steps |-> ParseInt(form.daily_steps),
   bmi_category |-> form.bmi_category,
   blood_pressure |-> form.blood_pressure,
   heart_rate |-> ParseInt(form.heart_rate),
   physical_activity |-> ParseInt(form.physical_activity)]

\* FieldErrors with the message of the last issue under every field.
FieldErrorsLastMessage(issues) ==
  [k \in {issues[j].path : j \in 1..Len(issues)} |-> issues[Len(issues)].message]

\* fieldErrors after error.errors.forEach: each issue assigns its message to
\* its field, so a later issue of a field replaces an earlier one.
RECURSIVE FieldErrors(_)
FieldErrors(issues) ==
  IF issues = <<>> THEN <<>>
  ELSE LET rest == FieldErrors(SubSeq(issues, 1, Len(issues) - 1))
           last == issues[Len(issues)]
       IN  [k \in (DOMAIN rest) \cup {last.path} |->
              IF k = last.path THEN last.message ELSE rest[k]]

\* ------------------------------------------------------- form contents
\* useState's initial formData, which is also what DailyLog resets to.
DefaultForm ==
  [age |-> <<>>, gender |-> "", sleep_duration |-> <<>>, stress_level |-> <<5>>,
   daily_steps |-> <<>>, bmi_category |-> "", blood_pressure |-> <<>>,
   heart_rate |-> <<>>, physical_activity |-> <<>>]

\* A form a user has filled in completely.
FilledForm ==
  [age |-> <<"2", "5">>, gender |-> "Female", sleep_duration |-> <<"7", ".", "5">>,
   stress_level |-> <<5>>, daily_steps |-> <<"8", "0">>, bmi_category |-> "Normal",
   blood_pressure |-> <<"1", "2", "0", "/", "8", "0">>, heart_rate |-> <<"7", "2">>,
   physical_activity |-> <<"3", "0">>]

\* What the inputs of each field can deliver to handleInputChange: the text
\* of a type="number" input is empty or a number, a <Select> gives one of
\* its items, the slider gives [n] with n in 1..10, and the blood pressure
\* input gives any text.
InputValues(field) ==
  CASE field = "age" ->
         {<<>>, <<"0">>, <<"1">>, <<"1", "2", "0">>, <<"1", "2", "1">>, <<"-", "5">>}
    [] field = "gender" -> {"Male", "Female", "Other"}
    [] field = "sleep_duration" ->
         {<<>>, <<"0">>, <<"2", "4">>, <<"2", "4", ".", "5">>, <<"-", "1">>}
    [] field = "stress_level" -> {<<StressMin>>, <<StressMax>>}
    [] field = "daily_steps" -> {<<>>, <<"0">>, <<"-", "1">>}
    [] field = "bmi_category" -> {"Normal", "Overweight", "Obese"}
    [] field = "blood_pressure" -> {<<>>, <<"h", "i", "g", "h">>}
    [] field = "heart_rate" ->
         {<<>>, <<"2", "9">>, <<"3", "0">>, <<"2", "2", "0">>, <<"2", "2", "1">>}
    [] OTHER -> {<<>>, <<"0">>, <<"-", "1">>}

\* The forms a run starts from: the untouched form, and a form filled in.
InitialForms == {DefaultForm, FilledForm}

\* ------------------------------------------------------------------ state
FormPages == {"Predict", "DailyLog"}
Pages == FormPages \cup {"Dashboard", "Index", "TipFeedback"}

VARIABLES
  page,        \* the mounted page
  session,     \* the session provider's current credential, or NoSession
  events,      \* events from outside the handlers so far
  formData,    \* Predict / DailyLog: the form's contents
  isLoading,   \* the mounted page's isLoading
  errors,      \* Predict / DailyLog: field name -> message
  prediction,  \* Predict: the displayed PredictionResult, or NoPrediction
  invs,        \* the invocations of the page's handler, oldest first
  toasts,      \* the notifications emitted, oldest first
  calls,       \* the invocations of apiClient.post / get, oldest first
  net,         \* the requests handed to fetch, oldest first
  mounted,     \* Dashboard: whether the mount effect has run
  days,        \* Dashboard: the selected window
  logs,        \* Dashboard: displayed logs
  averages,    \* Dashboard: displayed averages
  topDrivers,  \* Dashboard: displayed top drivers
  user,         \* NewIndex: the displayed user, or NoUser
  followed,     \* TipFeedback: the "I plan to follow this tip" box
  acknowledged, \* TipFeedback: the "helpful and relevant" box
  isSubmitting, \* TipFeedback: a submission is under way
  isSubmitted   \* TipFeedback: the feedback has been stored

authVars == <<session>>
formVars == <<formData, errors, prediction>>
dashVars == <<mounted, days, logs, averages, topDrivers>>
apiVars == <<calls, net>>
indexVars == <<user>>
feedbackVars == <<followed, acknowledged, isSubmitting, isSubmitted>>
vars == <<page, session, events, formData, isLoading, errors, prediction, invs,
          toasts, calls, net, mounted, days, logs, averages, topDrivers, user,
          followed, acknowledged, isSubmitting, isSubmitted>>

\* session?.user || null of a session.
NoUser == "no user"
UserOf(sess) ==
  CASE sess = NoSession -> NoUser
    [] sess = "jwt1" -> "alice"
    [] OTHER -> "bob"

NoPrediction == [none |-> TRUE]
NoErrors == <<>>
\* JavaScript's null, as the value of a credential.
Null == "null"

\* -------------------------------------------------------- the API client
\* getAuthToken with a module-level cache: the credential of the first
\* request sent is reused by every later call.
GetAuthTokenCached(sess) ==
  IF net = <<>> THEN (IF sess = NoSession THEN Null ELSE sess)
  ELSE IF net[1].method = "POST" THEN net[1].body["token"] ELSE net[1].query[1][2]

\* getAuthToken's result for a session: session?.access_token || null.
GetAuthToken(sess) == IF sess = NoSession THEN Null ELSE sess

\* The fixed messages of the errors apiClient throws itself.
MissingToken == "Authentication token not found."
GenericMessage == "API request failed"
\* The messages of the errors thrown by what apiClient calls: fetch on a
\* network failure, response.json() on a body that is not JSON, and the
\* read of .detail on a body that is the JSON value null.
FetchFailed == "Failed to fetch"
\* What a fetch that rejects with a value that is no Error rejects with (a
\* wrapped or replaced window.fetch rejecting with a string).
ThrownValue == "offline"
JsonSyntaxError == "Unexpected token in JSON"
NullTypeError == "Cannot read properties of null"

DigitChar ==
  [d \in 0..9 |->
     CASE d = 0 -> "0" [] d = 1 -> "1" [] d = 2 -> "2" [] d = 3 -> "3"
       [] d = 4 -> "4" [] d = 5 -> "5" [] d = 6 -> "6" [] d = 7 -> "7"
       [] d = 8 -> "8" [] OTHER -> "9"]

\* String(n) for an integer n >= 0, as text.
RECURSIVE Decimal(_)
Decimal(n) ==
  IF n < 10 THEN <<DigitChar[n]>> ELSE Decimal(n \div 10) \o <<DigitChar[n % 10]>>

\* String(value) for a number.
ToText(x) ==
  IF x.nan THEN <<"N", "a", "N">>
  ELSE IF x.v < 0 THEN <<"-">> \o Decimal(0 - x.v) ELSE Decimal(x.v)

NoBody == [none |-> TRUE]
NoQuery == <<>>

\* JSON.stringify({ ...body, token }): the caller's fields and the credential
\* under the key token.
PostBody(body, token) ==
  [k \in (DOMAIN body) \cup {"token"} |-> IF k = "token" THEN token ELSE body[k]]

\* url.searchParams after the appends: token first, then one entry per
\* parameter, in the parameters' order, each value through String().
GetQuery(params, token) ==
  <<<<"token", token>>>> \o [i \in 1..Len(params) |-> <<params[i][1], ToText(params[i][2])>>]

\* PostRequest with the credential appended to the URL, as get does, and
\* left out of the body.
PostRequestTokenInUrl(c, endpoint, body, token) ==
  [call |-> c, method |-> "POST", endpoint |-> endpoint,
   query |-> <<<<"token", token>>>>, body |-> body]

\* The request apiClient.post hands to fetch.
PostRequest(c, endpoint, body, token) ==
  [call |-> c, method |-> "POST", endpoint |-> endpoint, query |-> NoQuery,
   body |-> PostBody(body, token)]

\* The request apiClient.get hands to fetch.
GetRequest(c, endpoint, params, token) ==
  [call |-> c, method |-> "GET", endpoint |-> endpoint,
   query |-> GetQuery(params, token), body |-> NoBody]

\* How a call ends: fulfilled with data, rejected with an Error (isError,
\* message its message), or rejected with a value that is no Error (message
\* then holds the value itself).
NoData == [none |-> TRUE]
Fulfilled(data) == [ok |-> TRUE, isError |-> FALSE, message |-> "", data |-> data]
Rejected(message) == [ok |-> FALSE, isError |-> TRUE, message |-> message, data |-> NoData]
RejectedWith(value) == [ok |-> FALSE, isError |-> FALSE, message |-> value, data |-> NoData]
Pending == [ok |-> FALSE, isError |-> FALSE, message |-> "pending", data |-> NoData]

\* A response body: text that is not JSON, the JSON value null, or a JSON
\* object, with or without a detail string.
TextBody == [kind |-> "text", hasDetail |-> FALSE, detail |-> "", data |-> NoData]
NullBody == [kind |-> "null", hasDetail |-> FALSE, detail |-> "", data |-> NoData]
DataBody(data) == [kind |-> "object", hasDetail |-> FALSE, detail |-> "", data |-> data]
DetailBody(d) == [kind |-> "object", hasDetail |-> TRUE, detail |-> d, data |-> NoData]
NoDetailBody == DataBody(NoData)

\* ErrorMessage that drops the backend's detail.
ErrorMessageGeneric(body) == GenericMessage

\* errorData.detail || 'API request failed': the detail unless it is
\* undefined or the empty string.
ErrorMessage(body) ==
  IF body.hasDetail /\ body.detail # "" THEN body.detail ELSE GenericMessage

\* The end of apiClient.post once fetch has settled with rsp.
PostOutcome(rsp) ==
  IF rsp.status = "failed" THEN Rejected(FetchFailed)
  ELSE IF rsp.status = "thrown" THEN RejectedWith(ThrownValue)
  ELSE IF rsp.status = "non2xx"
    THEN IF rsp.body.kind = "text" THEN Rejected(JsonSyntaxError)
         ELSE IF rsp.body.kind = "null" THEN Rejected(NullTypeError)
         ELSE Rejected(ErrorMessage(rsp.body))
    ELSE IF rsp.body.kind = "text" THEN Rejected(JsonSyntaxError)
         ELSE Fulfilled(rsp.body.data)

\* The end of apiClient.get once fetch has settled with rsp.
GetOutcome(rsp) ==
  IF rsp.status = "failed" THEN Rejected(FetchFailed)
  ELSE IF rsp.status = "thrown" THEN RejectedWith(ThrownValue)
  ELSE IF rsp.status = "non2xx"
    THEN IF rsp.body.kind = "text" THEN Rejected(JsonSyntaxError)
         ELSE IF rsp.body.kind = "null" THEN Rejected(NullTypeError)
         ELSE Rejected(ErrorMessage(rsp.body))
    ELSE IF rsp.body.kind = "text" THEN Rejected(JsonSyntaxError)
         ELSE Fulfilled(rsp.body.data)

\* ------------------------------------------------------------ the backend
\* PredictionResult values POST /predict can answer with.
Predictions ==
  { [predicted_quality |-> 8, disorder_risk |-> "None", top_drivers |-> <<"steps">>,
     coach_tip |-> "keep going", confidence |-> "high", rule_override_flag |-> FALSE],
    [predicted_quality |-> 4, disorder_risk |-> "Insomnia", top_drivers |-> <<"stress">>,
     coach_tip |-> "wind down", confidence |-> "low", rule_override_flag |-> TRUE] }

\* What POST /log answers with (the client reads none of it).
LogStored == [status |-> "stored"]

\* The dashboard windows offered by the <Select>, as its item values.
WindowItems == {<<"7">>, <<"1", "4">>, <<"3", "0">>}

\* The backend's rows, oldest first; created_at counts days, today being 30;
\* sleep_duration and predicted_quality are in tenths.
BackendLogs ==
  << [created_at |-> 5, sleep_duration |-> 60, predicted_quality |-> 50,
      stress_level |-> 7, daily_steps |-> 4000],
     [created_at |-> 20, sleep_duration |-> 75, predicted_quality |-> 70,
      stress_level |-> 4, daily_steps |-> 8000],
     [created_at |-> 27, sleep_duration |-> 80, predicted_quality |-> 90,
      stress_level |-> 2, daily_steps |-> 9000] >>

LogsWithin(d) == SelectSeq(BackendLogs, LAMBDA r : r.created_at >= 30 - d)

RECURSIVE SumOf(_, _)
SumOf(rows, field) ==
  IF rows = <<>> THEN 0 ELSE rows[1][field] + SumOf(Tail(rows), field)

\* The averages the backend computes over a window's rows.
BackendAverages(rows) ==
  IF rows = <<>> THEN [sleep |-> 0, quality |-> 0, stress |-> 0, steps |-> 0]
  ELSE [sleep |-> SumOf(rows, "sleep_duration") \div Len(rows),
        quality |-> SumOf(rows, "predicted_quality") \div Len(rows),
        stress |-> SumOf(rows, "stress_level") \div Len(rows),
        steps |-> SumOf(rows, "daily_steps") \div Len(rows)]

\* GET /dashboard/series?days=d.
SeriesData(d) == [logs |-> LogsWithin(d), averages |-> BackendAverages(LogsWithin(d))]

\* driver_counts of a window: name and count, in the object's key order.
DriverCounts(d) ==
  IF d <= 7 THEN << <<"stress", 1>> >>
  ELSE IF d <= 14 THEN << <<"steps", 1>>, <<"stress", 2>> >>
  ELSE << <<"caffeine", 3>>, <<"stress", 5>>, <<"steps", 5>>, <<"noise", 1>>,
          <<"screen", 2>>, <<"naps", 5>> >>

\* GET /dashboard/top-drivers?days=d.
DriversData(d) ==
  [latest_top_drivers |-> IF LogsWithin(d) = <<>> THEN <<>> ELSE <<DriverCounts(d)[1][1]>>,
   driver_counts |-> DriverCounts(d)]

\* The days the backend reads from a GET request's query string.
WindowOf(req) ==
  LET i == CHOOSE i \in 1..Len(req.query) : req.query[i][1] = "days"
  IN  ParseInt(req.query[i][2]).v

\* The JSON a 2xx response to a request can hold.
BackendData(req) ==
  CASE req.endpoint = "/predict" -> Predictions
    [] req.endpoint = "/log" -> {LogStored}
    [] req.endpoint = "/dashboard/series" -> {SeriesData(WindowOf(req))}
    [] OTHER -> {DriversData(WindowOf(req))}

\* The ways fetch can settle for a request: a network failure (a TypeError,
\* or a rejection with a value that is no Error), a 2xx
\* response (with the data, or with a body that is not JSON), a non-2xx
\* response with one of the error bodies.
Details == {"", "quota exceeded"}
ErrorBodies == {TextBody, NullBody, NoDetailBody} \cup {DetailBody(d) : d \in Details}
GoodResponses(req) == {[status |-> "2xx", body |-> DataBody(d)] : d \in BackendData(req)}
NoResponse == [status |-> "none", body |-> TextBody]
BadResponses ==
  {[status |-> "failed", body |-> TextBody], [status |-> "thrown", body |-> TextBody],
   [status |-> "2xx", body |-> TextBody]}
  \cup {[status |-> "non2xx", body |-> b] : b \in ErrorBodies}

\* --------------------------------------------------------- driver ranking
TopN == 5

\* SortByCountDesc by a sort that is not stable: of two entries with the
\* same count the later one comes first.
RECURSIVE SortByCountDescUnstable(_)
SortByCountDescUnstable(entries) ==
  IF entries = <<>> THEN <<>>
  ELSE LET rest == SortByCountDescUnstable(SubSeq(entries, 1, Len(entries) - 1))
           e    == entries[Len(entries)]
           k    == Cardinality({i \in 1..Len(rest) : rest[i][2] > e[2]})
       IN  SubSeq(rest, 1, k) \o <<e>> \o SubSeq(rest, k + 1, Len(rest))

\* Array.prototype.sort with (a, b) => b - a on the counts: descending, and
\* stable, so equal counts keep their order.  The entry at position i goes
\* behind every entry with a greater count and every earlier entry with the
\* same count.
SortByCountDesc(entries) ==
  LET n == Len(entries)
      pos(i) == Cardinality({j \in 1..n : entries[j][2] > entries[i][2]})
                + Cardinality({j \in 1..i : entries[j][2] = entries[i][2]})
  IN  [p \in 1..n |-> entries[CHOOSE i \in 1..n : pos(i) = p]]

\* Object.entries(driver_counts).sort(...).slice(0, 5).map(...).
FormatDrivers(counts) ==
  LET sorted == SortByCountDesc(counts)
      kept   == SubSeq(sorted, 1, IF Len(sorted) < TopN THEN Len(sorted) ELSE TopN)
  IN  [i \in 1..Len(kept) |-> [driver |-> kept[i][1], count |-> kept[i][2]]]

\* ------------------------------------------------------------ initial state
ZeroAverages == [sleep |-> 0, quality |-> 0, stress |-> 0, steps |-> 0]

\* Each page as constructed by its useState calls.  For Predict and DailyLog
\* the form is taken as the user has filled it in: handleInputChange writes
\* formData and nothing else, so these are the states typing leads to.
Init ==
  /\ page \in Pages
  /\ session \in {NoSession, "jwt1"}
  /\ events = 0
  /\ formData \in (IF page \in FormPages THEN InitialForms ELSE {DefaultForm})
  /\ isLoading = (page \in {"Dashboard", "Index"})
  /\ errors = NoErrors
  /\ prediction = NoPrediction
  /\ invs = <<>>
  /\ toasts = <<>>
  /\ calls = <<>>
  /\ net = <<>>
  /\ mounted = FALSE
  /\ days = <<"7">>
  /\ logs = <<>>
  /\ averages = ZeroAverages
  /\ topDrivers = <<>>
  /\ user = NoUser
  /\ followed = FALSE
  /\ acknowledged = TRUE
  /\ isSubmitting = FALSE
  /\ isSubmitted = FALSE

\* ------------------------------------------------------ session provider
\* The session provider's credential changes: a sign-out, a sign-in, or a
\* refresh of the token.  The provider calls the callback NewIndex gave to
\* onAuthStateChange, if the landing page is mounted: setUser(session?.user
\* || null).
AuthChange(s) ==
  /\ events < MaxEvents
  /\ s # session
  /\ session' = s
  /\ events' = events + 1
  /\ user' = (IF page = "Index" /\ mounted THEN UserOf(s) ELSE user)
  /\ UNCHANGED <<page, feedbackVars, formVars, isLoading, invs, toasts, apiVars, dashVars>>

\* ------------------------------------------------- Predict and DailyLog
handleInputChange(field, value) ==
  /\ page \in FormPages
  /\ events < MaxEvents
  /\ formData[field] # value
  /\ formData' = [formData EXCEPT ![field] = value]
  /\ events' = events + 1
  /\ UNCHANGED <<page, indexVars, feedbackVars, authVars, isLoading, errors, prediction, invs, toasts,
                 apiVars, dashVars>>

SchemaOf(p) == IF p = "Predict" THEN predictionSchema ELSE sleepLogSchema
EndpointOf(p) == IF p = "Predict" THEN "/predict" ELSE "/log"

\* Validate that reports a field only once: a field whose message is on
\* display already is not checked again.
ValidateUnflagged(p, form) ==
  LET data   == Coerce(form)
      all    == SchemaIssues(SchemaOf(p), data)
      issues == SelectSeq(all, LAMBDA issue : issue.path \notin DOMAIN errors)
  IN  [success |-> issues = <<>>,
       data    |-> IF issues = <<>> THEN SchemaOutput(SchemaOf(p), data) ELSE NoData,
       issues  |-> issues]

\* schema.parse of the coerced form: the record it returns, or the issues of
\* the ZodError it throws.
Validate(p, form) ==
  LET data   == Coerce(form)
      issues == SchemaIssues(SchemaOf(p), data)
  IN  [success |-> issues = <<>>,
       data    |-> IF issues = <<>> THEN SchemaOutput(SchemaOf(p), data) ELSE NoData,
       issues  |-> issues]

\* The fixed description of a caught value that is no Error.
UnexpectedMessage == "An unexpected error occurred."

\* Described that shows whatever was thrown.
DescribedRaw(result) == result.message

\* error instanceof Error ? error.message : "An unexpected error occurred."
Described(result) == IF result.isError THEN result.message ELSE UnexpectedMessage

Toast(title, description, variant, i) ==
  [title |-> title, description |-> description, variant |-> variant, inv |-> i]

\* A new invocation of apiClient.post / get: it has called getAuthToken and
\* awaits it.  seen is the session getSession resolved with, reads counts
\* the resolutions, response is what fetch settled with.
NewCall(method, endpoint, arg, i, slot) ==
  [method |-> method, endpoint |-> endpoint, arg |-> arg, inv |-> i, slot |-> slot,
   pc |-> "token", token |-> Null, seen |-> NoSession, reads |-> 0,
   response |-> NoResponse, result |-> Pending]

\* A handler without its finally block: isLoading stays as setIsLoading(true)
\* left it.
LoadingWithoutFinally == TRUE

\* finally { setIsLoading(false) }, where a handler ends.
LoadingAfterFinally == FALSE

\* A submit button that is never disabled.
submitDisabledNever == FALSE

\* <Button type="submit" disabled={isLoading}>: the form cannot be submitted
\* while a submission is under way.
submitDisabled == isLoading

\* A handler that leaves the previous prediction on display.
PredictionAtStartKept(p) == prediction

\* setPrediction(null) at the start of Predict's handler; DailyLog has no
\* prediction.
PredictionAtStart(p) == IF p = "Predict" THEN NoPrediction ELSE prediction

\* handleSubmit up to its first await.  A ZodError ends the handler at once:
\* catch sets the errors, finally clears isLoading.  shown records the
\* errors mapping this invocation set.
handleSubmit ==
  /\ page \in FormPages
  /\ ~submitDisabled
  /\ Len(invs) < MaxSubmits
  /\ LET v == Validate(page, formData)
         i == Len(invs) + 1
     IN  /\ prediction' = PredictionAtStart(page)
         /\ IF v.success
              THEN /\ errors' = NoErrors
                   /\ isLoading' = TRUE
                   /\ invs' = Append(invs, [kind |-> "submit", pc |-> "getUser",
                                            raw |-> formData, validatedData |-> v.data,
                                            shown |-> NoErrors, outcome |-> "pending"])
              ELSE /\ errors' = FieldErrors(v.issues)
                   /\ isLoading' = LoadingAfterFinally
                   /\ invs' = Append(invs, [kind |-> "submit", pc |-> "done",
                                            raw |-> formData, validatedData |-> NoData,
                                            shown |-> FieldErrors(v.issues),
                                            outcome |-> "invalid"])
  /\ UNCHANGED <<page, indexVars, feedbackVars, authVars, events, formData, toasts, apiVars, dashVars>>

\* getUserResolved that sends a visitor without a user to the sign-in page.
getUserResolvedRedirect(i) ==
  /\ page \in FormPages
  /\ i \in 1..Len(invs)
  /\ invs[i].pc = "getUser"
  /\ IF session = NoSession
       THEN /\ page' = "Auth"
            /\ isLoading' = FALSE
            /\ invs' = [invs EXCEPT ![i].pc = "done", ![i].outcome = "nouser"]
            /\ UNCHANGED <<calls, toasts>>
       ELSE /\ calls' = Append(calls,
                  NewCall("POST", EndpointOf(page), invs[i].validatedData, i, 1))
            /\ invs' = [invs EXCEPT ![i].pc = "post"]
            /\ UNCHANGED <<toasts, isLoading, page>>
  /\ UNCHANGED <<indexVars, feedbackVars, authVars, events, errors, prediction, formData,
                 net, dashVars>>

\* supabase.auth.getUser() resolves.  Without a user: the toast, and the
\* handler returns.  With one: apiClient.post is called.
getUserResolved(i) ==
  /\ page \in FormPages
  /\ i \in 1..Len(invs)
  /\ invs[i].pc = "getUser"
  /\ IF session = NoSession
       THEN /\ toasts' = Append(toasts,
                  Toast("Authentication required",
                        IF page = "Predict" THEN "Please sign in to get predictions."
                                            ELSE "Please sign in to log your data.",
                        "destructive", i))
            /\ isLoading' = FALSE
            /\ invs' = [invs EXCEPT ![i].pc = "done", ![i].outcome = "nouser"]
            /\ UNCHANGED calls
       ELSE /\ calls' = Append(calls,
                  NewCall("POST", EndpointOf(page), invs[i].validatedData, i, 1))
            /\ invs' = [invs EXCEPT ![i].pc = "post"]
            /\ UNCHANGED <<toasts, isLoading>>
  /\ UNCHANGED <<page, indexVars, feedbackVars, authVars, events, errors, prediction, formData, net, dashVars>>

\* -------------------------------------------------------------- Dashboard
\* fetchDashboardData up to its await: isLoading, and the two apiClient.get
\* calls handed to Promise.all, both with the window d of this render.
StartRefresh(d) ==
  LET i      == Len(invs) + 1
      params == << <<"days", ParseInt(d)>> >>
  IN  /\ isLoading' = TRUE
      /\ invs' = Append(invs, [kind |-> "refresh", pc |-> "all", days |-> d,
                               outcome |-> "pending"])
      /\ calls' = calls \o << NewCall("GET", "/dashboard/series", params, i, 1),
                              NewCall("GET", "/dashboard/top-drivers", params, i, 2) >>

\* The effect's first run, after the first render.
DashMount ==
  /\ page = "Dashboard"
  /\ ~mounted
  /\ mounted' = TRUE
  /\ StartRefresh(days)
  /\ UNCHANGED <<page, indexVars, feedbackVars, authVars, events, formVars, toasts, net, days, logs, averages,
                 topDrivers>>

\* setDays that runs the effect on every selection, also of the window
\* already selected (an effect without its dependency list).
setDaysAlways(d) ==
  /\ page = "Dashboard"
  /\ mounted
  /\ events < MaxEvents
  /\ events' = events + 1
  /\ days' = d
  /\ StartRefresh(d)
  /\ UNCHANGED <<page, indexVars, feedbackVars, authVars, formVars, toasts, net, mounted, logs, averages, topDrivers>>

\* The <Select> calls setDays(d).  Another window: the render that follows
\* runs the effect again, [days] having changed.  The window already
\* selected: the state is the same string, and the effect does not run.
setDays(d) ==
  /\ page = "Dashboard"
  /\ mounted
  /\ events < MaxEvents
  /\ events' = events + 1
  /\ days' = d
  /\ IF d # days THEN StartRefresh(d) ELSE UNCHANGED <<isLoading, invs, calls>>
  /\ UNCHANGED <<page, indexVars, feedbackVars, authVars, formVars, toasts, net, mounted, logs, averages, topDrivers>>

\* ------------------------------------------- what follows a settled call
\* SubmitContinues with a catch that swallows the failure of the call.
SubmitContinuesSilent(i, result) ==
  /\ invs' = [invs EXCEPT ![i].pc = "done",
                          ![i].outcome = IF result.ok THEN "success" ELSE "error"]
  /\ isLoading' = FALSE
  /\ prediction' = (IF result.ok /\ page = "Predict" THEN result.data ELSE prediction)
  /\ formData' = (IF result.ok /\ page = "DailyLog" THEN DefaultForm ELSE formData)
  /\ toasts' = (IF ~result.ok THEN toasts
                ELSE Append(toasts,
                  IF page = "Predict"
                    THEN Toast("Prediction generated!", "Your sleep analysis is ready.",
                               "default", i)
                    ELSE Toast("Daily log stored successfully!",
                               "Your sleep data has been recorded.", "default", i)))
  /\ UNCHANGED <<logs, averages, topDrivers>>

\* SubmitContinues that resets the form whenever the handler ends.
SubmitContinuesResetAlways(i, result) ==
  /\ invs' = [invs EXCEPT ![i].pc = "done",
                          ![i].outcome = IF result.ok THEN "success" ELSE "error"]
  /\ isLoading' = FALSE
  /\ formData' = (IF page = "DailyLog" THEN DefaultForm ELSE formData)
  /\ IF result.ok
       THEN /\ prediction' = (IF page = "Predict" THEN result.data ELSE prediction)
            /\ toasts' = Append(toasts,
                  IF page = "Predict"
                    THEN Toast("Prediction generated!", "Your sleep analysis is ready.",
                               "default", i)
                    ELSE Toast("Daily log stored successfully!",
                               "Your sleep data has been recorded.", "default", i))
       ELSE /\ toasts' = Append(toasts,
                  Toast(IF page = "Predict" THEN "Failed to generate prediction"
                                            ELSE "Failed to save log",
                        Described(result), "destructive", i))
            /\ UNCHANGED prediction
  /\ UNCHANGED <<logs, averages, topDrivers>>

\* The rest of handleSubmit once apiClient.post has settled with result.
SubmitContinues(i, result) ==
  /\ invs' = [invs EXCEPT ![i].pc = "done",
                          ![i].outcome = IF result.ok THEN "success" ELSE "error"]
  /\ isLoading' = LoadingAfterFinally
  /\ IF result.ok
       THEN /\ prediction' = (IF page = "Predict" THEN result.data ELSE prediction)
            /\ formData' = (IF page = "DailyLog" THEN DefaultForm ELSE formData)
            /\ toasts' = Append(toasts,
                  IF page = "Predict"
                    THEN Toast("Prediction generated!", "Your sleep analysis is ready.",
                               "default", i)
                    ELSE Toast("Daily log stored successfully!",
                               "Your sleep data has been recorded.", "default", i))
       ELSE /\ toasts' = Append(toasts,
                  Toast(IF page = "Predict" THEN "Failed to generate prediction"
                                            ELSE "Failed to save log",
                        Described(result), "destructive", i))
            /\ UNCHANGED <<prediction, formData>>
  /\ UNCHANGED <<logs, averages, topDrivers>>

\* Math.round(a / n) for a >= 0 and n > 0: halves round up.
RoundDiv(a, n) == (2 * a + n) \div (2 * n)

\* log.x || 0 for a nullable column: a row holds a field only when its
\* column is not null.
OrZero(row, field) == IF field \in DOMAIN row THEN row[field] ELSE 0

\* logs.reduce((acc, log) => acc + (log.x || 0), 0) for one column.
RECURSIVE LegacySum(_, _)
LegacySum(rows, field) ==
  IF rows = <<>> THEN 0
  ELSE LegacySum(SubSeq(rows, 1, Len(rows) - 1), field) + OrZero(rows[Len(rows)], field)

\* The number of rows whose column is not null.
NonNull(rows, field) == Cardinality({k \in 1..Len(rows) : field \in DOMAIN rows[k]})

\* LegacyAverages over the rows that hold a value: each sum divided by the
\* number of non-null values of its column.
LegacyAveragesNonNull(rows) ==
  [sleep |-> IF NonNull(rows, "sleep_duration") = 0 THEN 0
             ELSE RoundDiv(LegacySum(rows, "sleep_duration"), NonNull(rows, "sleep_duration")),
   quality |-> IF NonNull(rows, "predicted_quality") = 0 THEN 0
               ELSE RoundDiv(LegacySum(rows, "predicted_quality"),
                             NonNull(rows, "predicted_quality")),
   stress |-> IF NonNull(rows, "stress_level") = 0 THEN 0
              ELSE RoundDiv(LegacySum(rows, "stress_level"), NonNull(rows, "stress_level")),
   steps |-> IF NonNull(rows, "daily_steps") = 0 THEN 0
             ELSE RoundDiv(LegacySum(rows, "daily_steps"), NonNull(rows, "daily_steps"))]

\* The averages the client computed itself from the logs, in the version of
\* the page that read the rows directly: the sums over all rows, divided by
\* logs.length when there is a row, sleep and quality rounded to one decimal
\* (a tenth, here), stress and steps to integers.
LegacyAverages(rows) ==
  IF rows = <<>> THEN ZeroAverages
  ELSE [sleep |-> RoundDiv(LegacySum(rows, "sleep_duration"), Len(rows)),
        quality |-> RoundDiv(LegacySum(rows, "predicted_quality"), Len(rows)),
        stress |-> RoundDiv(LegacySum(rows, "stress_level"), Len(rows)),
        steps |-> RoundDiv(LegacySum(rows, "daily_steps"), Len(rows))]

\* RefreshContinues that waits for both calls to settle (Promise.allSettled)
\* and then renders whatever succeeded, with one toast if a call failed.
RefreshContinuesAllSettled(i, slot, result, others) ==
  IF others.pc # "settled"
    THEN UNCHANGED <<invs, isLoading, toasts, logs, averages, topDrivers, prediction,
                     formData>>
    ELSE LET series  == IF slot = 1 THEN result ELSE others.result
             drivers == IF slot = 2 THEN result ELSE others.result
             failed  == IF ~series.ok THEN series ELSE drivers
         IN  /\ isLoading' = FALSE
             /\ invs' = [invs EXCEPT ![i].pc = "done",
                                     ![i].outcome = IF series.ok /\ drivers.ok
                                                      THEN "success" ELSE "error"]
             /\ logs' = (IF series.ok THEN series.data.logs ELSE logs)
             /\ averages' = (IF series.ok THEN series.data.averages ELSE averages)
             /\ topDrivers' = (IF drivers.ok THEN FormatDrivers(drivers.data.driver_counts)
                                            ELSE topDrivers)
             /\ toasts' = (IF series.ok /\ drivers.ok THEN toasts
                           ELSE Append(toasts, Toast("Failed to load dashboard",
                                                     Described(failed), "destructive", i)))
             /\ UNCHANGED <<prediction, formData>>

\* RefreshContinues that renders each response as it arrives, without
\* Promise.all.
RefreshContinuesPartial(i, slot, result, others) ==
  /\ isLoading' = (IF others.pc = "settled" THEN FALSE ELSE isLoading)
  /\ invs' = (IF others.pc = "settled"
                THEN [invs EXCEPT ![i].pc = "done",
                                  ![i].outcome = IF result.ok /\ others.result.ok
                                                   THEN "success" ELSE "error"]
                ELSE invs)
  /\ IF result.ok
       THEN /\ logs' = (IF slot = 1 THEN result.data.logs ELSE logs)
            /\ averages' = (IF slot = 1 THEN result.data.averages ELSE averages)
            /\ topDrivers' = (IF slot = 2 THEN FormatDrivers(result.data.driver_counts)
                                          ELSE topDrivers)
            /\ UNCHANGED toasts
       ELSE /\ toasts' = Append(toasts, Toast("Failed to load dashboard",
                                              Described(result), "destructive", i))
            /\ UNCHANGED <<logs, averages, topDrivers>>
  /\ UNCHANGED <<prediction, formData>>

\* RefreshContinues that computes the averages from the received logs, as
\* the earlier version of the page did.
RefreshContinuesRecomputed(i, slot, result, others) ==
  IF invs[i].pc = "done" \/ (result.ok /\ others.pc # "settled")
    THEN UNCHANGED <<invs, isLoading, toasts, logs, averages, topDrivers, prediction,
                     formData>>
    ELSE /\ isLoading' = FALSE
         /\ invs' = [invs EXCEPT ![i].pc = "done",
                                 ![i].outcome = IF result.ok THEN "success" ELSE "error"]
         /\ IF result.ok
              THEN LET seriesData  == IF slot = 1 THEN result.data ELSE others.result.data
                       driversData == IF slot = 2 THEN result.data ELSE others.result.data
                   IN  /\ logs' = seriesData.logs
                       /\ averages' = LegacyAverages(seriesData.logs)
                       /\ topDrivers' = FormatDrivers(driversData.driver_counts)
                       /\ UNCHANGED toasts
              ELSE /\ toasts' = Append(toasts,
                         Toast("Failed to load dashboard", Described(result),
                               "destructive", i))
                   /\ UNCHANGED <<logs, averages, topDrivers>>
         /\ UNCHANGED <<prediction, formData>>

\* The rest of fetchDashboardData once one of its two calls has settled.
\* Promise.all rejects with the first rejection and fulfils when both calls
\* have; a call that settles after the rejection changes nothing.
RefreshContinues(i, slot, result, others) ==
  IF invs[i].pc = "done" \/ (result.ok /\ others.pc # "settled")
    THEN UNCHANGED <<invs, isLoading, toasts, logs, averages, topDrivers, prediction,
                     formData>>
    ELSE /\ isLoading' = LoadingAfterFinally
         /\ invs' = [invs EXCEPT ![i].pc = "done",
                                 ![i].outcome = IF result.ok THEN "success" ELSE "error"]
         /\ IF result.ok
              THEN LET seriesData  == IF slot = 1 THEN result.data ELSE others.result.data
                       driversData == IF slot = 2 THEN result.data ELSE others.result.data
                   IN  /\ logs' = seriesData.logs
                       /\ averages' = seriesData.averages
                       /\ topDrivers' = FormatDrivers(driversData.driver_counts)
                       /\ UNCHANGED toasts
              ELSE /\ toasts' = Append(toasts,
                         Toast("Failed to load dashboard", Described(result),
                               "destructive", i))
                   /\ UNCHANGED <<logs, averages, topDrivers>>
         /\ UNCHANGED <<prediction, formData>>

\* The caller's continuation when call c settles with result.
Continue(c, result) ==
  IF page \in FormPages
    THEN SubmitContinues(calls[c].inv, result)
    ELSE RefreshContinues(calls[c].inv, calls[c].slot, result,
                          calls[IF calls[c].slot = 1 THEN c + 1 ELSE c - 1])

\* ------------------------------------------------ the API client's steps
\* Settled with one automatic retry of a failed call.
SettledRetry(call, result) ==
  IF ~result.ok /\ call.reads < 2
    THEN [call EXCEPT !.pc = "token"]
    ELSE [call EXCEPT !.pc = "settled", !.result = result]

Settled(call, result) == [call EXCEPT !.pc = "settled", !.result = result]

\* apiClient.post once getAuthToken has resolved with the session sess: the
\* call as it continues, and the request it hands to fetch.
PostAfterToken(c, call, sess) ==
  LET token == GetAuthToken(sess)
  IN  [call |-> [call EXCEPT !.pc = "fetch", !.token = token, !.seen = sess,
                             !.reads = @ + 1],
       sent |-> <<PostRequest(c, call.endpoint, call.arg, token)>>]

\* GetAfterToken without the check of the token: the request goes out with
\* a null credential.
GetAfterTokenUnchecked(c, call, sess) ==
  LET token == GetAuthToken(sess)
  IN  [call |-> [call EXCEPT !.pc = "fetch", !.token = token, !.seen = sess,
                             !.reads = @ + 1],
       sent |-> <<GetRequest(c, call.endpoint, call.arg, token)>>]

\* apiClient.get once getAuthToken has resolved with the session sess: it
\* throws without a token, and hands its request to fetch with one.
GetAfterToken(c, call, sess) ==
  LET token == GetAuthToken(sess)
      read  == [call EXCEPT !.token = token, !.seen = sess, !.reads = @ + 1]
  IN  IF token = Null
        THEN [call |-> Settled(read, Rejected(MissingToken)), sent |-> <<>>]
        ELSE [call |-> [read EXCEPT !.pc = "fetch"],
              sent |-> <<GetRequest(c, call.endpoint, call.arg, token)>>]

\* supabase.auth.getSession() resolves for call c, and the call runs on to
\* its fetch or to its throw.
tokenResolved(c) ==
  /\ c \in 1..Len(calls)
  /\ calls[c].pc = "token"
  /\ LET step == IF calls[c].method = "POST"
                   THEN PostAfterToken(c, calls[c], session)
                   ELSE GetAfterToken(c, calls[c], session)
     IN  /\ calls' = [calls EXCEPT ![c] = step.call]
         /\ net' = net \o step.sent
         /\ IF step.call.pc = "settled"
              THEN Continue(c, step.call.result)
              ELSE UNCHANGED <<invs, isLoading, toasts, logs, averages, topDrivers,
                               prediction, formData>>
  /\ UNCHANGED <<page, indexVars, feedbackVars, authVars, events, errors, mounted, days>>

\* The request call c handed to fetch.
RequestOf(c) == net[CHOOSE k \in 1..Len(net) : net[k].call = c]

\* The calls whose request is with fetch.
InFlight == {c \in 1..Len(calls) : calls[c].pc = "fetch"}

\* fetch settles for call c with rsp, and the call runs to its end:
\* response.json(), then the return or the throw.
fetchSettled(c, rsp) ==
  /\ c \in 1..Len(calls)
  /\ calls[c].pc = "fetch"
  /\ rsp \in BadResponses => events < MaxEvents
  /\ events' = (IF rsp \in BadResponses THEN events + 1 ELSE events)
  /\ LET result == IF calls[c].method = "POST" THEN PostOutcome(rsp) ELSE GetOutcome(rsp)
     IN  /\ calls' = [calls EXCEPT ![c] = [Settled(calls[c], result) EXCEPT !.response = rsp]]
         /\ Continue(c, result)
  /\ UNCHANGED <<page, indexVars, feedbackVars, authVars, errors, net, mounted, days>>

\* ------------------------------------------------------ the landing page
\* NewIndex's effect: getUser() is called and awaits getSession, and the
\* callback is subscribed.
NewIndexMount ==
  /\ page = "Index"
  /\ ~mounted
  /\ mounted' = TRUE
  /\ invs' = Append(invs, [kind |-> "getSession", pc |-> "getSession",
                           seen |-> NoSession, outcome |-> "pending"])
  /\ UNCHANGED <<page, indexVars, feedbackVars, authVars, events, formVars, isLoading,
                 toasts, apiVars, days, logs, averages, topDrivers>>

\* The session provider reads the session getSession will resolve with.
getSessionRead(i) ==
  /\ page = "Index"
  /\ i \in 1..Len(invs)
  /\ invs[i].pc = "getSession"
  /\ invs' = [invs EXCEPT ![i].pc = "resume", ![i].seen = session]
  /\ UNCHANGED <<page, indexVars, feedbackVars, authVars, events, formVars, isLoading,
                 toasts, apiVars, dashVars>>

\* getUser runs on with the session it awaited: setUser, setIsLoading(false).
getUserContinues(i) ==
  /\ page = "Index"
  /\ i \in 1..Len(invs)
  /\ invs[i].pc = "resume"
  /\ user' = UserOf(invs[i].seen)
  /\ isLoading' = FALSE
  /\ invs' = [invs EXCEPT ![i].pc = "done", ![i].outcome = "success"]
  /\ UNCHANGED <<page, feedbackVars, authVars, events, formVars, toasts, apiVars,
                 dashVars>>

\* ------------------------------------------------------------ TipFeedback
\* A component that never swaps the form for the thank-you card.
ThankYouShownNever == FALSE

\* if (isSubmitted) return the thank-you card: the form and its button are
\* gone.
ThankYouShown == isSubmitted

\* The checkbox "I plan to follow this tip".
setFollowed(checked) ==
  /\ page = "TipFeedback"
  /\ ~ThankYouShown
  /\ events < MaxEvents
  /\ checked # followed
  /\ followed' = checked
  /\ events' = events + 1
  /\ UNCHANGED <<page, indexVars, acknowledged, isSubmitting, isSubmitted, authVars,
                 formVars, isLoading, invs, toasts, apiVars, dashVars>>

\* The checkbox "This tip was helpful and relevant".
setAcknowledged(checked) ==
  /\ page = "TipFeedback"
  /\ ~ThankYouShown
  /\ events < MaxEvents
  /\ checked # acknowledged
  /\ acknowledged' = checked
  /\ events' = events + 1
  /\ UNCHANGED <<page, indexVars, followed, isSubmitting, isSubmitted, authVars,
                 formVars, isLoading, invs, toasts, apiVars, dashVars>>

\* What the awaited insert resolves with ({ error }), or its rejection.
InsertResults ==
  {[kind |-> "ok", message |-> ""], [kind |-> "error", message |-> "permission denied"],
   [kind |-> "thrown", message |-> FetchFailed]}

\* TipFeedback's handleSubmit up to await getUser.  The button is disabled
\* while isSubmitting.  The invocation keeps the followed and acknowledged of
\* the render it was called in; inserted and called record what it did.
TipFeedbackSubmit ==
  /\ page = "TipFeedback"
  /\ ~isSubmitting
  /\ ~ThankYouShown
  /\ Len(invs) < MaxSubmits
  /\ isSubmitting' = TRUE
  /\ invs' = Append(invs, [kind |-> "feedback", pc |-> "getUser", followed |-> followed,
                           acknowledged |-> acknowledged, user_id |-> NoUser,
                           inserted |-> FALSE, called |-> 0, outcome |-> "pending"])
  /\ UNCHANGED <<page, indexVars, followed, acknowledged, isSubmitted, authVars, events,
                 formVars, isLoading, toasts, apiVars, dashVars>>

\* getUser resolves: without a user the toast and the return (through
\* finally), with one the insert is sent.
TipFeedbackUserResolved(i) ==
  /\ page = "TipFeedback"
  /\ i \in 1..Len(invs)
  /\ invs[i].pc = "getUser"
  /\ IF session = NoSession
       THEN /\ toasts' = Append(toasts,
                  Toast("Authentication required", "Please sign in to provide feedback.",
                        "destructive", i))
            /\ isSubmitting' = FALSE
            /\ invs' = [invs EXCEPT ![i].pc = "done", ![i].outcome = "nouser"]
       ELSE /\ invs' = [invs EXCEPT ![i].pc = "insert", ![i].user_id = UserOf(session)]
            /\ UNCHANGED <<toasts, isSubmitting>>
  /\ UNCHANGED <<page, indexVars, followed, acknowledged, isSubmitted, authVars, events,
                 formVars, isLoading, apiVars, dashVars>>

\* The insert settles with r, and handleSubmit runs to its end.
TipFeedbackInsertSettled(i, r) ==
  /\ page = "TipFeedback"
  /\ i \in 1..Len(invs)
  /\ invs[i].pc = "insert"
  /\ isSubmitting' = FALSE
  /\ CASE r.kind = "ok" ->
            /\ isSubmitted' = TRUE
            /\ toasts' = Append(toasts,
                  Toast("Feedback submitted!",
                        "Thank you for helping us improve your experience.",
                        "default", i))
            /\ invs' = [invs EXCEPT ![i].pc = "done", ![i].outcome = "success",
                                    ![i].inserted = TRUE, ![i].called = @ + 1]
       [] r.kind = "error" ->
            /\ toasts' = Append(toasts,
                  Toast("Failed to save feedback", r.message, "destructive", i))
            /\ invs' = [invs EXCEPT ![i].pc = "done", ![i].outcome = "error"]
            /\ UNCHANGED isSubmitted
       [] OTHER ->
            /\ toasts' = Append(toasts,
                  Toast("Failed to save feedback", UnexpectedMessage, "destructive", i))
            /\ invs' = [invs EXCEPT ![i].pc = "done", ![i].outcome = "error"]
            /\ UNCHANGED isSubmitted
  /\ UNCHANGED <<page, indexVars, followed, acknowledged, authVars, events, formVars,
                 isLoading, apiVars, dashVars>>

\* ------------------------------------------------------------ specification
Next ==
  \/ \E s \in Tokens \cup {NoSession} : AuthChange(s)
  \/ \E f \in FieldSet : \E v \in InputValues(f) : handleInputChange(f, v)
  \/ handleSubmit
  \/ \E i \in 1..Len(invs) : getUserResolved(i)
  \/ DashMount
  \/ \E d \in WindowItems : setDays(d)
  \/ \E c \in 1..Len(calls) : tokenResolved(c)
  \/ \E c \in InFlight :
       \E rsp \in GoodResponses(RequestOf(c)) \cup BadResponses : fetchSettled(c, rsp)
  \/ NewIndexMount
  \/ \E i \in 1..Len(invs) : getSessionRead(i)
  \/ \E i \in 1..Len(invs) : getUserContinues(i)
  \/ \E checked \in BOOLEAN : setFollowed(checked)
  \/ \E checked \in BOOLEAN : setAcknowledged(checked)
  \/ TipFeedbackSubmit
  \/ \E i \in 1..Len(invs) : TipFeedbackUserResolved(i)
  \/ \E i \in 1..Len(invs) : \E r \in InsertResults : TipFeedbackInsertSettled(i, r)

Spec == Init /\ [][Next]_vars

\* The same pages where every awaited call settles: getUser resolves,
\* getSession resolves, fetch settles.
Settles ==
  /\ WF_vars(\E i \in 1..Len(invs) : getUserResolved(i))
  /\ WF_vars(\E c \in 1..Len(calls) : tokenResolved(c))
  /\ WF_vars(\E c \in InFlight :
               \E rsp \in GoodResponses(RequestOf(c)) \cup BadResponses :
                 fetchSettled(c, rsp))

LiveSpec == Init /\ [][Next]_vars /\ Settles

\* ------------------------------- the Dashboard that reads the rows itself
\* The rows a query of sleep_logs can return: every column present, the
\* nullable columns all null, and some of them null.  sleep_duration and
\* predicted_quality are in tenths.
LegacyRows ==
  { [created_at |-> 5, sleep_duration |-> 75, predicted_quality |-> 70,
     stress_level |-> 3, daily_steps |-> 8000, top_drivers |-> <<"stress", "steps">>],
    [created_at |-> 20, sleep_duration |-> 60, predicted_quality |-> 55,
     stress_level |-> 4, daily_steps |-> 5001, top_drivers |-> <<"steps">>],
    [created_at |-> 27],
    [created_at |-> 28, sleep_duration |-> 80, stress_level |-> 8] }

\* The sequences of at most n rows.
RowsUpTo(n) == UNION {[1..k -> LegacyRows] : k \in 0..n}

\* What the awaited query resolves with ({ data, error }), or rejects.
QueryResults ==
  {[kind |-> "data", rows |-> rows, message |-> ""] : rows \in RowsUpTo(MaxRows)}
    \cup {[kind |-> "null", rows |-> <<>>, message |-> ""],
          [kind |-> "error", rows |-> <<>>, message |-> "permission denied"],
          [kind |-> "thrown", rows |-> <<>>, message |-> FetchFailed]}

\* driverCounts[driver] = (driverCounts[driver] || 0) + 1.
CountDriver(counts, driver) ==
  IF \E k \in 1..Len(counts) : counts[k][1] = driver
    THEN [k \in 1..Len(counts) |->
            IF counts[k][1] = driver THEN <<driver, counts[k][2] + 1>> ELSE counts[k]]
    ELSE Append(counts, <<driver, 1>>)

\* log.top_drivers.forEach(...) on the counts so far.
RECURSIVE CountDrivers(_, _)
CountDrivers(counts, drivers) ==
  IF drivers = <<>> THEN counts
  ELSE CountDriver(CountDrivers(counts, SubSeq(drivers, 1, Len(drivers) - 1)),
                   drivers[Len(drivers)])

\* driverCounts after logs.forEach: rows without top_drivers add nothing.
RECURSIVE LegacyDriverCounts(_)
LegacyDriverCounts(rows) ==
  IF rows = <<>> THEN <<>>
  ELSE LET before == LegacyDriverCounts(SubSeq(rows, 1, Len(rows) - 1))
           log    == rows[Len(rows)]
       IN  IF "top_drivers" \in DOMAIN log THEN CountDrivers(before, log.top_drivers)
           ELSE before

\* The render after setLogs(rows): the averages and top drivers are derived
\* from the logs held.
LegacyRender(rows) ==
  /\ logs' = rows
  /\ averages' = LegacyAverages(rows)
  /\ topDrivers' = FormatDrivers(LegacyDriverCounts(rows))

LegacyInit ==
  /\ page = "LegacyDashboard"
  /\ session \in {NoSession, "jwt1"}
  /\ events = 0
  /\ formData = DefaultForm
  /\ isLoading = TRUE
  /\ errors = NoErrors
  /\ prediction = NoPrediction
  /\ invs = <<>>
  /\ toasts = <<>>
  /\ calls = <<>>
  /\ net = <<>>
  /\ mounted = FALSE
  /\ days = <<"7">>
  /\ logs = <<>>
  /\ averages = LegacyAverages(<<>>)
  /\ topDrivers = <<>>
  /\ user = NoUser
  /\ followed = FALSE
  /\ acknowledged = TRUE
  /\ isSubmitting = FALSE
  /\ isSubmitted = FALSE

\* fetchDashboardData up to its first await.
LegacyStartFetch(d) ==
  /\ isLoading' = TRUE
  /\ invs' = Append(invs, [kind |-> "legacyFetch", pc |-> "getUser", days |-> d,
                           outcome |-> "pending"])

\* The effect's first run.
LegacyMount ==
  /\ page = "LegacyDashboard"
  /\ ~mounted
  /\ mounted' = TRUE
  /\ LegacyStartFetch(days)
  /\ UNCHANGED <<page, indexVars, feedbackVars, authVars, events, formVars, toasts,
                 apiVars, days, logs, averages, topDrivers>>

\* The <Select> calls setDays(d); the effect runs again when days changed.
LegacySetDays(d) ==
  /\ page = "LegacyDashboard"
  /\ mounted
  /\ events < MaxEvents
  /\ events' = events + 1
  /\ days' = d
  /\ IF d # days THEN LegacyStartFetch(d) ELSE UNCHANGED <<isLoading, invs>>
  /\ UNCHANGED <<page, indexVars, feedbackVars, authVars, formVars, toasts, apiVars,
                 mounted, logs, averages, topDrivers>>

\* supabase.auth.getUser() resolves: without a user the toast and the
\* return (through finally), with one the query is sent.
LegacyGetUserResolved(i) ==
  /\ page = "LegacyDashboard"
  /\ i \in 1..Len(invs)
  /\ invs[i].pc = "getUser"
  /\ IF session = NoSession
       THEN /\ toasts' = Append(toasts,
                  Toast("Authentication required",
                        "Please sign in to view your dashboard.", "destructive", i))
            /\ isLoading' = LoadingAfterFinally
            /\ invs' = [invs EXCEPT ![i].pc = "done", ![i].outcome = "nouser"]
       ELSE /\ invs' = [invs EXCEPT ![i].pc = "query"]
            /\ UNCHANGED <<toasts, isLoading>>
  /\ UNCHANGED <<page, indexVars, feedbackVars, authVars, events, formVars, apiVars,
                 dashVars>>

\* The query settles with r, and fetchDashboardData runs to its end.
LegacyQuerySettled(i, r) ==
  /\ page = "LegacyDashboard"
  /\ i \in 1..Len(invs)
  /\ invs[i].pc = "query"
  /\ invs' = [invs EXCEPT ![i].pc = "done",
                          ![i].outcome = IF r.kind \in {"data", "null"} THEN "success"
                                         ELSE "error"]
  /\ isLoading' = LoadingAfterFinally
  /\ CASE r.kind = "error" ->
            /\ toasts' = Append(toasts,
                  Toast("Failed to load dashboard", r.message, "destructive", i))
            /\ UNCHANGED <<logs, averages, topDrivers>>
       [] r.kind = "thrown" ->
            /\ toasts' = Append(toasts,
                  Toast("Failed to load dashboard", UnexpectedMessage, "destructive", i))
            /\ UNCHANGED <<logs, averages, topDrivers>>
       [] OTHER ->
            /\ LegacyRender(r.rows)
            /\ UNCHANGED toasts
  /\ UNCHANGED <<page, indexVars, feedbackVars, authVars, events, formVars, apiVars,
                 mounted, days>>

LegacyNext ==
  \/ \E s \in Tokens \cup {NoSession} : AuthChange(s)
  \/ LegacyMount
  \/ \E d \in WindowItems : LegacySetDays(d)
  \/ \E i \in 1..Len(invs) : LegacyGetUserResolved(i)
  \/ \E i \in 1..Len(invs) : \E r \in QueryResults : LegacyQuerySettled(i, r)

LegacySpec == LegacyInit /\ [][LegacyNext]_vars

\* ------------------------------------------------- the ranking, by itself
\* The driver_counts mappings a /dashboard/top-drivers response can hold:
\* up to MaxDrivers keys in insertion order, each with a count in
\* 1..MaxCount.
DriverNames == <<"A", "B", "C", "D", "E", "F", "G", "H">>
CountMappings ==
  UNION { { [i \in 1..n |-> <<DriverNames[i], f[i]>>] : f \in [1..n -> 1..MaxCount] }
          : n \in 0..MaxDrivers }

\* The Dashboard after its mount, signed in, with the series response in
\* and the top-drivers request with fetch.
RankInit ==
  LET params  == << <<"days", ParseInt(<<"7">>)>> >>
      first   == GetAfterToken(1, NewCall("GET", "/dashboard/series", params, 1, 1), "jwt1")
      second  == GetAfterToken(2, NewCall("GET", "/dashboard/top-drivers", params, 1, 2),
                               "jwt1")
      arrived == [status |-> "2xx", body |-> DataBody(SeriesData(7))]
  IN  /\ page = "Dashboard"
      /\ session = "jwt1"
      /\ events = 0
      /\ formData = DefaultForm
      /\ isLoading = TRUE
      /\ errors = NoErrors
      /\ prediction = NoPrediction
      /\ invs = <<[kind |-> "refresh", pc |-> "all", days |-> <<"7">>,
                   outcome |-> "pending"]>>
      /\ toasts = <<>>
      /\ calls = << [Settled(first.call, GetOutcome(arrived)) EXCEPT !.response = arrived],
                    second.call >>
      /\ net = first.sent \o second.sent
      /\ mounted = TRUE
      /\ days = <<"7">>
      /\ logs = <<>>
      /\ averages = ZeroAverages
      /\ topDrivers = <<>>
      /\ user = NoUser
      /\ followed = FALSE
      /\ acknowledged = TRUE
      /\ isSubmitting = FALSE
      /\ isSubmitted = FALSE

\* The top-drivers response arrives with the mapping counts.
driversArrive(counts) ==
  fetchSettled(2, [status |-> "2xx",
                   body |-> DataBody([latest_top_drivers |-> <<>>,
                                      driver_counts |-> counts])])

RankNext == 2 \in InFlight /\ \E counts \in CountMappings : driversArrive(counts)

RankSpec == RankInit /\ [][RankNext]_vars

\* ================================================================ claims
CallIds == 1..Len(calls)
\* The requests call c handed to fetch, as positions of net.
RequestsOf(c) == {k \in 1..Len(net) : net[k].call = c}
\* The credential getAuthToken owes its caller for a session.
CredentialOf(sess) == IF sess = NoSession THEN "null" ELSE sess

\* C1: an apiClient.get whose getAuthToken found no session has failed, with
\* the missing-token error, in the very step the credential was read, and
\* has handed no request to fetch; whatever its endpoint and parameters.
C1_GetWithoutCredentialFailsFast ==
  \A c \in CallIds :
    (calls[c].method = "GET" /\ calls[c].reads > 0 /\ calls[c].seen = NoSession)
      => /\ calls[c].pc = "settled"
         /\ ~calls[c].result.ok
         /\ calls[c].result.message = "Authentication token not found."
         /\ RequestsOf(c) = {}

C1_Witness ==
  \E c \in CallIds :
    /\ calls[c].method = "GET" /\ calls[c].reads > 0 /\ calls[c].seen = NoSession
    /\ calls[c].endpoint = "/dashboard/top-drivers"

\* C2: every POST handed to fetch has a body holding the caller's fields
\* unchanged and, under token, the credential read during that call, and
\* nothing in its URL; every GET handed to fetch has no body, and a query
\* string made of one token entry with that call's credential followed by
\* one entry per parameter.
C2_CredentialTransport ==
  \A k \in 1..Len(net) :
    LET r    == net[k]
        call == calls[r.call]
    IN  IF r.method = "POST"
          THEN /\ DOMAIN r.body = (DOMAIN call.arg) \cup {"token"}
               /\ \A f \in DOMAIN call.arg : r.body[f] = call.arg[f]
               /\ r.body["token"] = CredentialOf(call.seen)
               /\ r.query = <<>>
          ELSE /\ r.body = [none |-> TRUE]
               /\ Len(r.query) = 1 + Len(call.arg)
               /\ r.query[1] = <<"token", CredentialOf(call.seen)>>
               /\ Cardinality({i \in 1..Len(r.query) : r.query[i][1] = "token"}) = 1
               /\ \A i \in 1..Len(call.arg) :
                    r.query[i + 1] = <<call.arg[i][1], ToText(call.arg[i][2])>>

C2_Witness ==
  \E k \in 1..Len(net) :
    /\ net[k].method = "POST"
    /\ net[k].body["token"] = "jwt1"
    /\ net[k].body["age"] = Num(25)

C4_UnparseableErrorBody ==
  \A c \in CallIds :
    (calls[c].pc = "settled" /\ calls[c].response.status = "non2xx"
       /\ calls[c].response.body.kind = "text")
      => /\ ~calls[c].result.ok
         /\ calls[c].result.message = "API request failed"

\* The window the dashboard has selected, as a number of days.
SelectedWindow == ParseInt(days).v

\* C5: on the dashboard, once every fetch has resolved and every refresh has
\* succeeded, the displayed logs, averages and top drivers are those of the
\* selected window, in whatever order the responses arrived.
C5_DisplayedWindowIsSelected ==
  (/\ page = "Dashboard"
   /\ Len(invs) >= 2
   /\ \A c \in CallIds : calls[c].pc = "settled"
   /\ \A i \in 1..Len(invs) : invs[i].outcome = "success")
    => /\ logs = SeriesData(SelectedWindow).logs
       /\ averages = SeriesData(SelectedWindow).averages
       /\ topDrivers = FormatDrivers(DriversData(SelectedWindow).driver_counts)

\* The nine fields of HealthMetricsInput.
NineFields ==
  {"age", "gender", "sleep_duration", "stress_level", "daily_steps", "bmi_category",
   "blood_pressure", "heart_rate", "physical_activity"}

\* The fields of a form that are empty, not a number, or outside the
\* documented range, once its text is read as numbers.
Offending(form) ==
  LET d == Coerce(form)
  IN  {f \in NineFields :
         CASE f = "age" -> d.age.nan \/ d.age.v < 1 \/ d.age.v > 120
           [] f = "gender" -> d.gender = ""
           [] f = "sleep_duration" ->
                d.sleep_duration.nan \/ d.sleep_duration.v < 0 \/ d.sleep_duration.v > 240
           [] f = "stress_level" ->
                d.stress_level.nan \/ d.stress_level.v < 1 \/ d.stress_level.v > 10
           [] f = "daily_steps" -> d.daily_steps.nan \/ d.daily_steps.v < 0
           [] f = "bmi_category" -> d.bmi_category = ""
           [] f = "blood_pressure" -> d.blood_pressure = <<>>
           [] f = "heart_rate" ->
                d.heart_rate.nan \/ d.heart_rate.v < 30 \/ d.heart_rate.v > 220
           [] OTHER -> d.physical_activity.nan \/ d.physical_activity.v < 0}

Submits == {i \in 1..Len(invs) : invs[i].kind = "submit"}
CallsOf(i) == {c \in CallIds : calls[c].inv = i}

\* C6: a submission of a form with an offending field has ended in the
\* ZodError branch, before getUser and with no call of the API client, and
\* as long as it is the latest submission the errors mapping has exactly the
\* offending fields as its keys and isLoading is false.
C6_InvalidFormRejectedLocally ==
  \A i \in Submits :
    LET offending == Offending(invs[i].raw)
    IN  offending # {}
          => /\ invs[i].pc = "done"
             /\ invs[i].outcome = "invalid"
             /\ CallsOf(i) = {}
             /\ i = Len(invs) => (DOMAIN errors = offending /\ ~isLoading)

C6_Witness ==
  \E i \in Submits :
    /\ i = Len(invs)
    /\ Offending(invs[i].raw) = NineFields \ {"stress_level", "gender"}
    /\ DOMAIN errors = NineFields \ {"stress_level", "gender"}

\* C7: a submission of a form whose nine fields all lie in the documented
\* ranges passes validation, its validated record is the form read as
\* numbers, and the POST sent for it carries exactly these nine values
\* beside the credential.
C7_ValidFormPassesUnchanged ==
  \A i \in Submits :
    LET read == Coerce(invs[i].raw)
    IN  Offending(invs[i].raw) = {}
          => /\ invs[i].outcome # "invalid"
             /\ DOMAIN invs[i].validatedData = NineFields
             /\ \A f \in NineFields : invs[i].validatedData[f] = read[f]
             /\ \A c \in CallsOf(i) : \A k \in RequestsOf(c) :
                  /\ (DOMAIN net[k].body) \ {"token"} = NineFields
                  /\ \A f \in NineFields : net[k].body[f] = read[f]

C7_Witness ==
  \E i \in Submits : \E c \in CallsOf(i) : \E k \in RequestsOf(c) :
    /\ invs[i].raw.age = <<"1", "2", "0">>
    /\ net[k].body["age"] = Num(120)
    /\ net[k].body["sleep_duration"] = Num(75)

\* Text of the form systolic/diastolic: digits, a slash, digits.
WellFormedPressure(t) ==
  \E i \in 2..(Len(t) - 1) :
    /\ t[i] = "/"
    /\ \A j \in (1..Len(t)) \ {i} : t[j] \in Digit

\* C8: every POST handed to fetch has a payload in the documented domain of
\* HealthMetricsInput, field by field.
C8_PayloadInDocumentedDomain ==
  \A k \in 1..Len(net) :
    net[k].method = "POST"
      => LET b == net[k].body
         IN  /\ ~b["age"].nan /\ b["age"].v \in 1..120
             /\ b["gender"] \in {"Male", "Female", "Other"}
             /\ ~b["sleep_duration"].nan /\ b["sleep_duration"].v \in 0..240
             /\ ~b["stress_level"].nan /\ b["stress_level"].v \in 1..10
             /\ ~b["daily_steps"].nan /\ b["daily_steps"].v >= 0
             /\ b["bmi_category"] \in {"Normal", "Overweight", "Obese"}
             /\ WellFormedPressure(b["blood_pressure"])
             /\ ~b["heart_rate"].nan /\ b["heart_rate"].v \in 30..220
             /\ ~b["physical_activity"].nan /\ b["physical_activity"].v >= 0

\* The credential a request carries: the body's token for a POST, the
\* query's token entry for a GET.
Carried(r) == IF r.method = "POST" THEN r.body["token"] ELSE r.query[1][2]

\* C9: a call reads the session once, before its request exists, and the
\* request it then hands to fetch carries the credential the session
\* provider holds at that moment, so never one read by an earlier call.
C9_NoCredentialCache ==
  [][/\ \A c \in 1..Len(calls') :
          /\ calls'[c].reads = (IF calls'[c].pc = "token" THEN 0 ELSE 1)
          /\ calls'[c].pc = "token" => \A k \in 1..Len(net') : net'[k].call # c
     /\ Len(net') > Len(net) =>
          /\ Len(net') = Len(net) + 1
          /\ Carried(net'[Len(net')]) = CredentialOf(session)
          /\ calls[net'[Len(net')].call].pc = "token"]_vars

C9_Witness ==
  /\ Len(net) = 2
  /\ net[1].call # net[2].call
  /\ Carried(net[1]) = "jwt1"
  /\ Carried(net[2]) = "jwt2"

\* C10: a call of the API client hands at most one request to fetch, whatever
\* its outcome, and a handler invocation calls the API client at most once
\* per endpoint: once for a submission, twice (series, top drivers) for a
\* dashboard refresh; nothing is called again after a failure.
C10_NoRetry ==
  /\ \A c \in CallIds : Cardinality(RequestsOf(c)) <= 1
  /\ \A i \in 1..Len(invs) :
       /\ Cardinality(CallsOf(i)) <= (IF invs[i].kind = "submit" THEN 1 ELSE 2)
       /\ \A c1, c2 \in CallsOf(i) : calls[c1].endpoint = calls[c2].endpoint => c1 = c2

C10_Witness ==
  \E c \in CallIds :
    /\ calls[c].pc = "settled"
    /\ calls[c].response.status = "failed"
    /\ Cardinality(RequestsOf(c)) = 1
    /\ invs[calls[c].inv].outcome = "error"

\* The refreshes of the dashboard, and the call a refresh made to an
\* endpoint.
Refreshes == {i \in 1..Len(invs) : invs[i].kind = "refresh"}
CallTo(i, endpoint) == {c \in CallsOf(i) : calls[c].endpoint = endpoint}
ToastsOf(i) == {t \in 1..Len(toasts) : toasts[t].inv = i}
FailedCalls(i) == {c \in CallsOf(i) : calls[c].pc = "settled" /\ ~calls[c].result.ok}

\* C11: every refresh has exactly one call to /dashboard/series and exactly
\* one to /dashboard/top-drivers, both GETs with the days of its window and
\* each with at most one request, which carries that days value; a step that
\* changes the selected window starts exactly one refresh, for the new
\* window, whose two calls both exist and are both unresolved after the
\* step; a step that leaves the selected window as it is, after the mount,
\* starts no refresh and no call.
C11_WindowChangeStartsOneRefresh ==
  /\ [](\A i \in Refreshes :
          /\ Cardinality(CallsOf(i)) = 2
          /\ Cardinality(CallTo(i, "/dashboard/series")) = 1
          /\ Cardinality(CallTo(i, "/dashboard/top-drivers")) = 1
          /\ \A c \in CallsOf(i) :
               /\ calls[c].method = "GET"
               /\ Cardinality(RequestsOf(c)) <= 1
               /\ \A k \in RequestsOf(c) :
                    /\ net[k].endpoint = calls[c].endpoint
                    /\ \E q \in 1..Len(net[k].query) :
                         net[k].query[q] = <<"days", invs[i].days>>)
  /\ [][(page = "Dashboard" /\ mounted)
          => IF days' # days
               THEN /\ Len(invs') = Len(invs) + 1
                    /\ invs'[Len(invs')].kind = "refresh"
                    /\ invs'[Len(invs')].days = days'
                    /\ Len(calls') = Len(calls) + 2
                    /\ \A c \in (Len(calls) + 1)..Len(calls') :
                         /\ calls'[c].inv = Len(invs')
                         /\ calls'[c].pc = "token"
                         /\ calls'[c].reads = 0
                    /\ net' = net
               ELSE /\ Len(invs') = Len(invs)
                    /\ Len(calls') = Len(calls)]_vars

C11_Witness ==
  /\ page = "Dashboard"
  /\ Len(invs) = 2
  /\ days = <<"3", "0">>
  /\ invs[2].days = <<"3", "0">>
  /\ \A c \in CallsOf(2) : \E k \in RequestsOf(c) : net[k].query[2] = <<"days", <<"3", "0">>>>
  /\ \E c \in CallsOf(1) : calls[c].pc # "settled"

\* C12: on the dashboard isLoading is true whenever some refresh has a call
\* that has not settled.
C12_LoadingWhilePending ==
  page = "Dashboard"
    => ((\E i \in Refreshes : \E c \in CallsOf(i) : calls[c].pc # "settled") => isLoading)

\* C13: a refresh with a failed call has exactly one notification, the
\* destructive 'Failed to load dashboard', and a refresh without one has
\* none; and the step in which a call of a refresh settles, the refresh
\* having a failed call after it, leaves logs, averages and topDrivers as
\* they were, also when the call that settles has succeeded.
C13_FailedRefreshRendersNothing ==
  /\ [](\A i \in Refreshes :
          IF FailedCalls(i) # {}
            THEN /\ Cardinality(ToastsOf(i)) = 1
                 /\ \A t \in ToastsOf(i) :
                      /\ toasts[t].title = "Failed to load dashboard"
                      /\ toasts[t].variant = "destructive"
            ELSE ToastsOf(i) = {})
  /\ [][\A c \in 1..Len(calls) :
          (/\ page = "Dashboard"
           /\ calls[c].pc # "settled"
           /\ calls'[c].pc = "settled"
           /\ \E b \in 1..Len(calls') :
                /\ calls'[b].inv = calls[c].inv
                /\ calls'[b].pc = "settled"
                /\ ~calls'[b].result.ok)
            => UNCHANGED <<logs, averages, topDrivers>>]_vars

C13_Witness ==
  \E i \in Refreshes :
    /\ \E c \in CallTo(i, "/dashboard/series") : calls[c].pc = "settled" /\ calls[c].result.ok
    /\ \E c \in CallTo(i, "/dashboard/top-drivers") :
         calls[c].pc = "settled" /\ calls[c].response.status = "non2xx"
    /\ Cardinality(ToastsOf(i)) = 1
    /\ logs = <<>> /\ averages = ZeroAverages /\ topDrivers = <<>>

\* C14: on the dashboard the displayed logs, averages and topDrivers are
\* either all as constructed, or all taken from the two responses of one
\* refresh that ended in success, both of whose calls had settled.
C14_DisplayFromOneRefresh ==
  page = "Dashboard"
    => \/ logs = <<>> /\ averages = ZeroAverages /\ topDrivers = <<>>
       \/ \E i \in Refreshes :
            /\ invs[i].outcome = "success"
            /\ \A c \in CallsOf(i) : calls[c].pc = "settled" /\ calls[c].result.ok
            /\ \E sc \in CallTo(i, "/dashboard/series") :
                 /\ logs = calls[sc].result.data.logs
                 /\ averages = calls[sc].result.data.averages
            /\ \E dc \in CallTo(i, "/dashboard/top-drivers") :
                 topDrivers = FormatDrivers(calls[dc].result.data.driver_counts)

C14_Witness ==
  /\ page = "Dashboard"
  /\ \E i, j \in Refreshes :
       /\ invs[i].outcome = "success"
       /\ invs[j].outcome = "pending"
       /\ \E c \in CallsOf(j) : calls[c].pc = "settled" /\ calls[c].result.ok
  /\ logs # <<>>
  /\ topDrivers # <<>>

\* The place of a key in a driver_counts mapping's insertion order.
PositionIn(counts, name) == CHOOSE j \in 1..Len(counts) : counts[j][1] = name

\* C15: once the top-drivers response of a successful refresh is in,
\* topDrivers has min(5, number of entries) items, each an entry of the
\* response's driver_counts with its count; an item's count is never below
\* that of a later item, and of two items with the same count the one
\* inserted earlier comes first; no entry left out has a larger count than
\* an entry kept.
C15_DriverRanking ==
  (/\ page = "Dashboard"
   /\ Len(calls) = 2
   /\ calls[2].pc = "settled"
   /\ calls[2].result.ok
   /\ invs[1].outcome = "success")
    => LET counts == calls[2].result.data.driver_counts
           kept   == {topDrivers[k].driver : k \in 1..Len(topDrivers)}
       IN  /\ Len(topDrivers) = (IF Len(counts) < 5 THEN Len(counts) ELSE 5)
           /\ \A k \in 1..Len(topDrivers) :
                \E j \in 1..Len(counts) :
                  counts[j] = <<topDrivers[k].driver, topDrivers[k].count>>
           /\ \A k, l \in 1..Len(topDrivers) :
                k < l
                  => \/ topDrivers[k].count > topDrivers[l].count
                     \/ /\ topDrivers[k].count = topDrivers[l].count
                        /\ PositionIn(counts, topDrivers[k].driver)
                             < PositionIn(counts, topDrivers[l].driver)
           /\ \A j \in 1..Len(counts) :
                counts[j][1] \notin kept
                  => \A k \in 1..Len(topDrivers) : counts[j][2] <= topDrivers[k].count

C15_Witness ==
  /\ Len(calls) = 2
  /\ calls[2].pc = "settled"
  /\ calls[2].result.ok
  /\ calls[2].result.data.driver_counts
       = << <<"A", 2>>, <<"B", 3>>, <<"C", 3>>, <<"D", 1>>, <<"E", 3>>, <<"F", 2>> >>
  /\ topDrivers = << [driver |-> "B", count |-> 3], [driver |-> "C", count |-> 3],
                     [driver |-> "E", count |-> 3], [driver |-> "A", count |-> 2],
                     [driver |-> "F", count |-> 2] >>

\* The title of the notification a page's handler shows for a caught
\* failure.
FailureTitle(p) ==
  CASE p = "Predict" -> "Failed to generate prediction"
    [] p = "DailyLog" -> "Failed to save log"
    [] OTHER -> "Failed to load dashboard"

\* The call c fails in this step: it settles, rejected.
Fails(c) == calls[c].pc # "settled" /\ calls'[c].pc = "settled" /\ ~calls'[c].result.ok

\* C16, as stated: each failed call of the API client has a destructive
\* notification of its own, so a handler's invocation has as many
\* notifications of failure as it has failed calls.
C16_Original ==
  \A i \in 1..Len(invs) :
    Cardinality({t \in ToastsOf(i) : toasts[t].title = FailureTitle(page)})
      = Cardinality(FailedCalls(i))

\* C16: an invocation of a handler with a failed call has ended, in its
\* catch, with exactly one notification of failure, and one without a failed
\* call has none; the step in which the first call of an invocation fails
\* with an Error appends one destructive notification whose description is
\* that Error's message and ends the handler with isLoading false; the
\* failure of a second call of the same refresh adds no notification.
C16_FailureGivesOneNotification ==
  /\ [](\A i \in 1..Len(invs) :
          LET shown == {t \in ToastsOf(i) : toasts[t].title = FailureTitle(page)}
          IN  IF FailedCalls(i) # {}
                THEN /\ invs[i].pc = "done"
                     /\ invs[i].outcome = "error"
                     /\ Cardinality(shown) = 1
                     /\ \A t \in shown : toasts[t].variant = "destructive"
                ELSE shown = {})
  /\ [][\A c \in 1..Len(calls) :
          Fails(c)
            => IF FailedCalls(calls[c].inv) # {}
                 THEN toasts' = toasts
                 ELSE /\ Len(toasts') = Len(toasts) + 1
                      /\ SubSeq(toasts', 1, Len(toasts)) = toasts
                      /\ toasts'[Len(toasts')].inv = calls[c].inv
                      /\ toasts'[Len(toasts')].variant = "destructive"
                      /\ calls'[c].result.isError
                           => toasts'[Len(toasts')].description = calls'[c].result.message
                      /\ invs'[calls[c].inv].pc = "done"
                      /\ isLoading' = FALSE]_vars

C16_Witness ==
  /\ page = "Predict"
  /\ \E c \in CallIds :
       /\ calls[c].pc = "settled"
       /\ calls[c].response.status = "non2xx"
       /\ calls[c].result.message = "quota exceeded"
       /\ \E t \in ToastsOf(calls[c].inv) :
            /\ toasts[t].description = "quota exceeded"
            /\ toasts[t].variant = "destructive"

\* C17: a submission that passed validation and found no user at getUser
\* has made no call of the API client and has exactly one notification,
\* 'Authentication required'; and the step in which getUser resolves without
\* a user appends that notification, sends nothing, leaves the page where it
\* is and ends with isLoading false.
C17_NoUserStopsSubmit ==
  /\ [](\A i \in Submits :
          invs[i].outcome = "nouser"
            => /\ invs[i].validatedData # NoData
               /\ invs[i].pc = "done"
               /\ CallsOf(i) = {}
               /\ Cardinality(ToastsOf(i)) = 1
               /\ \A t \in ToastsOf(i) : toasts[t].title = "Authentication required")
  /\ [][\A i \in 1..Len(invs) :
          (invs[i].pc = "getUser" /\ invs'[i].pc # "getUser" /\ session = NoSession)
            => /\ invs'[i].outcome = "nouser"
               /\ Len(toasts') = Len(toasts) + 1
               /\ toasts'[Len(toasts')].title = "Authentication required"
               /\ net' = net
               /\ calls' = calls
               /\ page' = page
               /\ isLoading' = FALSE]_vars

C17_Witness ==
  /\ page = "DailyLog"
  /\ ~isLoading
  /\ net = <<>>
  /\ \E i \in Submits :
       /\ invs[i].outcome = "nouser"
       /\ invs[i].raw = FilledForm
       /\ \E t \in ToastsOf(i) : toasts[t].title = "Authentication required"

\* The message of the first issue reported for a field.
FirstMessage(issues, f) ==
  issues[CHOOSE j \in 1..Len(issues) :
           /\ issues[j].path = f
           /\ \A k \in 1..(j - 1) : issues[k].path # f].message

\* C18: while the latest submission is one that failed validation, errors
\* has one entry per field with an issue, and the entry of a field is the
\* message of the first issue the schema reports for that field.
C18_FirstIssuePerField ==
  \A i \in Submits :
    (i = Len(invs) /\ invs[i].outcome = "invalid")
      => LET issues == SchemaIssues(SchemaOf(page), Coerce(invs[i].raw))
         IN  /\ DOMAIN errors = {issues[j].path : j \in 1..Len(issues)}
             /\ \A f \in DOMAIN errors : errors[f] = FirstMessage(issues, f)

C18_Witness ==
  \E i \in Submits :
    /\ i = Len(invs)
    /\ invs[i].outcome = "invalid"
    /\ {"age", "gender", "heart_rate"} \subseteq DOMAIN errors
    /\ errors["age"].text = "Expected number, received nan"
    /\ errors["gender"].text = "String must contain at least N character(s)"
    /\ errors["gender"] # errors["age"]

AverageFields == {"sleep", "quality", "stress", "steps"}

\* C19: the step in which a refresh ends in success sets the displayed
\* averages, field for field, to the averages object of the body of that
\* refresh's /dashboard/series response; no other step changes them.
C19_AveragesPassedThrough ==
  [][page = "Dashboard"
       => IF \E i \in 1..Len(invs) : invs[i].outcome # "success" /\ invs'[i].outcome = "success"
            THEN \A i \in 1..Len(invs) :
                   (invs[i].outcome # "success" /\ invs'[i].outcome = "success")
                     => \E c \in 1..Len(calls) :
                          /\ calls'[c].inv = i
                          /\ calls'[c].endpoint = "/dashboard/series"
                          /\ DOMAIN averages' = AverageFields
                          /\ \A f \in AverageFields :
                               averages'[f] = calls'[c].response.body.data.averages[f]
            ELSE averages' = averages]_vars

C19_Witness ==
  /\ page = "Dashboard"
  /\ \E i \in Refreshes :
       /\ invs[i].outcome = "success"
       /\ \E c \in CallTo(i, "/dashboard/series") :
            averages = calls[c].response.body.data.averages
  /\ logs # <<>>
  /\ averages.sleep # LegacyAverages(logs).sleep

\* C20: the step in which the first call of an invocation fails with a value
\* that is no Error appends one destructive notification whose description
\* is 'An unexpected error occurred.', which is not the value thrown.
C20_NonErrorShownGeneric ==
  [][\A c \in 1..Len(calls) :
       (Fails(c) /\ ~calls'[c].result.isError /\ FailedCalls(calls[c].inv) = {})
         => /\ Len(toasts') = Len(toasts) + 1
            /\ toasts'[Len(toasts')].inv = calls[c].inv
            /\ toasts'[Len(toasts')].variant = "destructive"
            /\ toasts'[Len(toasts')].description = "An unexpected error occurred."
            /\ toasts'[Len(toasts')].description # calls'[c].result.message]_vars

C20_Witness ==
  \E c \in CallIds :
    /\ calls[c].pc = "settled"
    /\ calls[c].response.status = "thrown"
    /\ ~calls[c].result.isError
    /\ \E t \in ToastsOf(calls[c].inv) :
         toasts[t].description = "An unexpected error occurred."

C23_EveryPostCarriesCredential ==
  \A k \in 1..Len(net) :
    net[k].method = "POST" => net[k].body["token"] # Null

\* The submissions whose handler has not ended, and the POSTs not settled.
PendingSubmits == {i \in Submits : invs[i].pc # "done"}
PendingPosts == {c \in CallIds : calls[c].method = "POST" /\ calls[c].pc # "settled"}

\* C25: on Predict and DailyLog, isLoading is true as long as a submission's
\* handler has not ended, at most one submission and at most one POST are
\* under way, and a submission starts only in a state where isLoading is
\* false.
C25_OneSubmissionAtATime ==
  /\ [](page \in FormPages
          => /\ PendingSubmits # {} => isLoading
             /\ Cardinality(PendingSubmits) <= 1
             /\ Cardinality(PendingPosts) <= 1)
  /\ [][(page \in FormPages /\ Len(invs') > Len(invs)) => ~isLoading]_vars

\* A second submission under way, with its POST handed to fetch, after the
\* first one ended.
C25_Witness ==
  /\ page \in FormPages
  /\ Len(invs) = 2
  /\ invs[1].pc = "done"
  /\ invs[2].pc = "post"
  /\ isLoading
  /\ \E c \in CallsOf(2) : calls[c].pc = "fetch"

\* C26: on Predict, the prediction on display is the response of the latest
\* submission if that one ended with a successful POST, and null otherwise;
\* the step that starts a submission leaves prediction null and errors
\* holding only what this submission's validation reported.
C26_PredictionNeverStale ==
  /\ [](page = "Predict"
          => IF invs # <<>> /\ invs[Len(invs)].outcome = "success"
               THEN \E c \in CallsOf(Len(invs)) :
                      /\ calls[c].result.ok
                      /\ prediction = calls[c].result.data
               ELSE prediction = NoPrediction)
  /\ [][(page = "Predict" /\ Len(invs') > Len(invs))
          => /\ prediction' = NoPrediction
             /\ DOMAIN errors' = Offending(formData)]_vars

\* A submission that failed after one that had shown a prediction.
C26_Witness ==
  /\ page = "Predict"
  /\ Len(invs) = 2
  /\ invs[1].outcome = "success"
  /\ invs[2].outcome \in {"invalid", "nouser", "error"}
  /\ prediction = NoPrediction

\* C27: on DailyLog, a step of the submit handler changes formData only when
\* it is the step in which POST /log succeeded, and then to the defaults; the
\* steps that start a submission or end it without success keep formData.
C27_FormResetOnlyOnSuccess ==
  [][page = "DailyLog"
       => \A i \in 1..Len(invs') :
            (i > Len(invs) \/ invs'[i] # invs[i])
              => IF i <= Len(invs) /\ invs'[i].outcome = "success"
                   THEN formData' = DefaultForm
                   ELSE formData' = formData]_vars

\* A stored log after a submission that failed: the form kept the entries
\* at the failure and holds the defaults now.
C27_Witness ==
  /\ page = "DailyLog"
  /\ Len(invs) = 2
  /\ invs[1].outcome \in {"nouser", "error"}
  /\ invs[2].outcome = "success"
  /\ invs[2].raw = invs[1].raw
  /\ invs[2].raw # DefaultForm
  /\ formData = DefaultForm

\* The positions the invocations of one page can have.
InvocationIds == 1..(MaxSubmits + MaxEvents + 1)
HandlerPages == FormPages \cup {"Dashboard"}

\* C24: where every awaited call settles, every invocation of the submit
\* handlers and of fetchDashboardData ends, and the step in which an
\* invocation ends leaves isLoading false, whatever its outcome.
C24_HandlersEndNotLoading ==
  /\ \A i \in InvocationIds :
       (page \in HandlerPages /\ i <= Len(invs) /\ invs[i].pc # "done")
         ~> (i <= Len(invs) /\ invs[i].pc = "done")
  /\ [][(page \in HandlerPages)
          => \A i \in 1..Len(invs') :
               (invs'[i].pc = "done" /\ (i > Len(invs) \/ invs[i].pc # "done"))
                 => isLoading' = FALSE]_vars

\* A page that has seen an invocation end in failure and one in success.
C24_Witness ==
  /\ page \in HandlerPages
  /\ Len(invs) = 2
  /\ invs[1].pc = "done" /\ invs[1].outcome \in {"invalid", "nouser", "error"}
  /\ invs[2].pc = "done" /\ invs[2].outcome = "success"
  /\ ~isLoading

\* The columns behind the four averages.
Metrics ==
  { <<"sleep", "sleep_duration">>, <<"quality", "predicted_quality">>,
    <<"stress", "stress_level">>, <<"steps", "daily_steps">> }

\* The sum of a column over the first k rows held, a null counting as 0.
RECURSIVE HeldSum(_, _)
HeldSum(column, k) ==
  IF k = 0 THEN 0
  ELSE HeldSum(column, k - 1) + (IF column \in DOMAIN logs[k] THEN logs[k][column] ELSE 0)

\* C22 as stated: each displayed average is exactly the sum of its column
\* over the logs held, a null as 0, divided by the number of logs, and 0
\* without logs.
C22_Original ==
  page = "LegacyDashboard"
    => \A m \in Metrics :
         IF logs = <<>> THEN averages[m[1]] = 0
         ELSE averages[m[1]] * Len(logs) = HeldSum(m[2], Len(logs))

\* C22: each displayed average is the sum of its column over the logs held,
\* a null as 0, divided by the number of logs and rounded to the nearest unit
\* of its display (a tenth for sleep and quality, one for stress and steps),
\* halves upwards; and 0 without logs.
C22_LegacyAveragesFromLogs ==
  page = "LegacyDashboard"
    => \A m \in Metrics :
         LET n   == Len(logs)
             sum == HeldSum(m[2], n)
             avg == averages[m[1]]
         IN  IF n = 0 THEN avg = 0
             ELSE /\ 2 * n * avg - n <= 2 * sum
                  /\ 2 * sum < 2 * n * avg + n

\* Logs with a null stress_level on display: the average counts that row in
\* its divisor.
C22_Witness ==
  /\ page = "LegacyDashboard"
  /\ Len(logs) = 2
  /\ \E k \in 1..2 : "stress_level" \notin DOMAIN logs[k]
  /\ HeldSum("stress_level", 2) = 8
  /\ averages.stress = 4
  /\ \E i \in 1..Len(invs) : invs[i].outcome = "success"

\* C28: on the landing page, once getSession's result has been handled, the
\* displayed user is the user of the session provider's latest session and
\* isLoading is false.
C28_LatestSessionShown ==
  (/\ page = "Index"
   /\ mounted
   /\ \A i \in 1..Len(invs) : invs[i].pc = "done")
    => /\ user = UserOf(session)
       /\ isLoading = FALSE

\* The TipFeedback invocations that stored a row.
Inserted == {i \in 1..Len(invs) : invs[i].inserted}
RECURSIVE CallbacksUpTo(_)
CallbacksUpTo(k) == IF k = 0 THEN 0 ELSE CallbacksUpTo(k - 1) + invs[k].called

\* C29: in TipFeedback, isSubmitted holds exactly when an insert succeeded,
\* which was for a signed-in user, and it never becomes false again; a
\* submission starts only while isSubmitting and isSubmitted are false; at
\* most one insert succeeds, onFeedbackSubmitted is called at most once, and
\* only by the invocation whose insert succeeded.
C29_FeedbackStoredOnce ==
  /\ [](page = "TipFeedback"
          => /\ isSubmitted <=> Inserted # {}
             /\ \A i \in Inserted : invs[i].user_id # NoUser /\ invs[i].outcome = "success"
             /\ Cardinality(Inserted) <= 1
             /\ CallbacksUpTo(Len(invs)) <= 1
             /\ \A i \in 1..Len(invs) : invs[i].called > 0 => i \in Inserted
             /\ Cardinality({i \in 1..Len(invs) : invs[i].pc # "done"}) <= 1)
  /\ [][page = "TipFeedback"
          => /\ isSubmitted => isSubmitted'
             /\ Len(invs') > Len(invs) => (~isSubmitting /\ ~isSubmitted)]_vars

\* Feedback stored at the second attempt, the first having failed.
C29_Witness ==
  /\ page = "TipFeedback"
  /\ Len(invs) = 2
  /\ invs[1].outcome \in {"nouser", "error"}
  /\ invs[2].outcome = "success"
  /\ invs[2].called = 1
  /\ isSubmitted
  /\ ~isSubmitting

====
